---- MODULE Spec2Model ----
(***************************************************************************)
(* A model of the composed abstractions of the repository:                 *)
(*   - ThreadSafeQueue<T>   (src/std_threads/06_task_queue.cpp)            *)
(*   - SimpleThreadPool     (src/std_threads/14_simple_threadpool.cpp)     *)
(* and of the std::promise / std::future channel as it is used by          *)
(*   - risky_worker and main (src/std_threads/12_promise_future_exception.cpp) *)
(*   - calculate_sum and main (src/std_threads/07_promise_and_future.cpp)  *)
(* Every thread is a small program counter machine; a std::mutex is its    *)
(* owner (or Free), a std::condition_variable is the set of threads        *)
(* currently blocked in wait().  A thread that has been removed from that  *)
(* set (notify_one, notify_all or a spurious wake-up) must re-acquire the  *)
(* mutex and re-test its predicate, as condition_variable::wait(lock,pred) *)
(* does.                                                                   *)
(***************************************************************************)
EXTENDS Integers, Sequences, FiniteSets, TLC

\* ------------------------------------------------------------------ bounds
\* max_size given to the ThreadSafeQueue constructor
MaxSize == 2
\* push calls made by each producer thread
MaxPush == 2
\* pop calls made by each consumer thread
MaxPop == 2
\* set_finished calls made by the closing thread
MaxClose == 2
\* task objects created by the submitting threads of the pool
MaxTasks == 3
\* the capacity N a bounded pool would have been constructed with
PendingBound == 1
\* set_value / set_exception calls made on one promise
MaxSets == 2
\* get calls made on one future
MaxGets == 2

\* ------------------------------------------------------------- thread sets
Producers == {"p1", "p2"}
Consumers == {"c1", "c2"}
Closer == "main"
\* SimpleThreadPool(numThreads): the worker threads, in the order of the vector workers
Workers == {"w1", "w2"}
WorkerOrder == <<"w1", "w2">>
\* the threads that call enqueue and enqueue_task
Submitters == {"main"}
Destructor == "dtor"
TaskIds == 1..MaxTasks
\* for (int test_input : {10, -5, 0}): one promise / future pair per input
Inputs == <<10, -5, 0>>
Channels == 1..Len(Inputs)
\* std::vector<int> numbers = {1, 2, 3, 4, 5, 6, 7, 8, 9, 10};
Numbers == <<1, 2, 3, 4, 5, 6, 7, 8, 9, 10>>
Free == "free"

\* producer(id): the ids main() hands out are i + 1
ProducerId(p) == IF p = "p1" THEN 1 ELSE 2

\* producer(): int task = id * 100 + i
Task(p, i) == ProducerId(p) * 100 + i

VARIABLES
    \* ---- ThreadSafeQueue fields
    q,              \* std::queue<T> q
    mtx,            \* std::mutex mtx: owner or Free
    cv_consumer,    \* threads blocked in cv_consumer.wait
    cv_producer,    \* threads blocked in cv_producer.wait
    finished,       \* std::atomic<bool> finished
    \* ---- the calling threads
    ppc,            \* producer -> position inside push
    pn,             \* producer -> number of push calls started (loop index i)
    pushResult,     \* producer -> what the last completed push returned
    pushOutcome,    \* producer -> what the last completed push did to q
    cpc,            \* consumer -> position inside pop
    cn,             \* consumer -> number of pop calls started
    citem,          \* consumer -> local variable item of pop
    spc,            \* position of the closing thread inside set_finished
    sn,             \* number of set_finished calls started
    \* ---- observation of the queue (written, never read, by the actions)
    enqueued,       \* items in the order q.push appended them
    dequeued,       \* items in the order q.pop removed them
    atClose,        \* q at the latest set_finished
    sinceClose,     \* items removed since the latest set_finished
    noneSeen,       \* some pop has returned std::nullopt
    \* ---- SimpleThreadPool fields
    tasks,          \* std::queue<std::function<void()>> tasks (task ids)
    queue_mutex,    \* std::mutex queue_mutex: owner or Free
    condition,      \* threads blocked in condition.wait
    stop,           \* bool stop
    wpc,            \* worker -> position inside the worker lambda
    wtask,          \* worker -> local variable task (0: empty)
    terminated,     \* std::terminate has ended the process
    \* ---- the threads using the pool
    epc,            \* submitter -> position inside enqueue / enqueue_task
    etask,          \* submitter -> the task of the call in progress
    submitResult,   \* submitter -> what the last completed call gave its caller
    dpc,            \* position inside ~SimpleThreadPool
    djoin,          \* number of workers the destructor has joined
    \* ---- the task objects
    ntasks,         \* number of task objects created so far
    kind,           \* task -> "void" (enqueue) or "packaged" (enqueue_task)
    body,           \* task -> "ok" (returns) or "throw" (throws)
    tstate,         \* task -> created, queued, running, done, rejected
    fstate,         \* task -> shared state of its future: none, pending, value, exception
    fval,           \* task -> the stored value, or the task whose exception is stored
    gstate,         \* task -> what future::get gave the handle holder
    gval,
    \* ---- observation of the pool (written, never read, by the actions)
    atShutdown,     \* tasks pending when the destructor took the lock
    submitOutcome,  \* task -> what the call that submitted it gave its caller
    runs,           \* task -> number of times a worker took it from the queue
    \* ---- std::promise / std::future (12_promise_future_exception.cpp)
    iter,           \* iterations of main's loop started so far
    mainpc,         \* where main is in the current iteration
    riskypc,        \* where the worker thread of the current iteration is
    caught,         \* the exception the worker's catch (...) holds
    shared,         \* channel -> state of the shared state: pending, value or an exception
    sharedval,      \* channel -> the stored value
    valid,          \* channel -> future::valid()
    received,       \* channel -> what main's get returned or threw
    setCalls,       \* channel -> results of the set calls made on the promise, in order
    getCalls,       \* channel -> results of the get calls made on the future, in order
    \* ---- std::promise / std::future (07_promise_and_future.cpp)
    summain,        \* where main is
    sumpc,          \* where the thread running calculate_sum is
    sumidx,         \* elements of data the loop has added
    sum,            \* long long sum
    sumshared,      \* state of the shared state of sum_promise / sum_future
    sumstored,      \* the value stored in it
    sumvalid,       \* sum_future.valid()
    sumresult,      \* what main's sum_future.get() returned or threw
    \* ---- the example program of 06_task_queue.cpp
    cexit,          \* consumer -> its loop has ended (pop gave nullopt, break)
    exmain,         \* where main is: joining producers, closing, joining consumers, end
    \* ---- the shared counters (03_mutex.cpp, 04_lock_guard.cpp, 05_atomic.cpp)
    cprog,          \* which of the three programs runs, "none" before main
    counter_mutex,  \* owner of counter_mutex / counter_mutex_lg, or Unowned
    shared_counter, \* shared_counter_mutex / shared_counter_lg / atomic_counter
    tpc,            \* thread -> position in its increment function
    ti,             \* thread -> loop variable i
    treg,           \* thread -> the value its ++ has read and not yet written back
    cmain,          \* where main is: start, launching, joining, end
    launched,       \* threads main has created
    cjoined,        \* threads main has joined
    actual,         \* the counter value main prints, -1 before
    \* ---- observation of the counters (written, never read, by the actions)
    lastInc,        \* the thread that made the latest increment, 0 before
    interleaved     \* an increment followed one of another, still running, thread

qvars == <<q, mtx, cv_consumer, cv_producer, finished>>
tvars == <<ppc, pn, pushResult, pushOutcome, cpc, cn, citem, spc, sn>>
hvars == <<enqueued, dequeued, atClose, sinceClose, noneSeen>>
queuevars == <<qvars, tvars, hvars>>
poolvars == <<tasks, queue_mutex, condition, stop, wpc, wtask, terminated,
              epc, etask, submitResult, dpc, djoin,
              ntasks, kind, body, tstate, fstate, fval, gstate, gval,
              atShutdown, submitOutcome, runs>>
chanvars == <<iter, mainpc, riskypc, caught, shared, sharedval, valid, received,
              setCalls, getCalls>>
sumvars == <<summain, sumpc, sumidx, sum, sumshared, sumstored, sumvalid, sumresult>>
exvars == <<cexit, exmain>>
ctrvars == <<cprog, counter_mutex, shared_counter, tpc, ti, treg, cmain, launched, cjoined,
             actual, lastInc, interleaved>>
vars == <<queuevars, poolvars, chanvars, sumvars, exvars, ctrvars>>

\* ThreadSafeQueue(size_t maxSize) : max_size(maxSize)
max_size == MaxSize

QueueInit ==
    /\ q = <<>>
    /\ mtx = Free
    /\ cv_consumer = {}
    /\ cv_producer = {}
    /\ finished = FALSE
    /\ ppc = [p \in Producers |-> "idle"]
    /\ pn = [p \in Producers |-> 0]
    /\ pushResult = [p \in Producers |-> "none"]
    /\ pushOutcome = [p \in Producers |-> "none"]
    /\ cpc = [c \in Consumers |-> "idle"]
    /\ cn = [c \in Consumers |-> 0]
    /\ citem = [c \in Consumers |-> 0]
    /\ spc = "idle"
    /\ sn = 0
    /\ enqueued = <<>>
    /\ dequeued = <<>>
    /\ atClose = <<>>
    /\ sinceClose = <<>>
    /\ noneSeen = FALSE

\* variant of NotifyOne: the notification is lost, no waiting thread is woken
NotifyOneLost(cv) == {cv}

\* ---------------------------------------------------- condition variables
\* notify_one: at most one of the waiting threads leaves the wait set
NotifyOne(cv) == IF cv = {} THEN {cv} ELSE {cv \ {t} : t \in cv}

\* notify_all: every waiting thread leaves the wait set
NotifyAll(cv) == {}

\* ------------------------------------------------------------------- push
\* variant of PushPred: the size test off by one
PushPredOffByOne == Len(q) <= max_size \/ finished

\* variant of PushPred: no size test, push never waits
PushPredNoBound == TRUE

\* the predicate of cv_producer.wait in push
PushPred == Len(q) < max_size \/ finished

\* variant of PushStop: the finished test after the wait left out
PushStopNever == FALSE

\* the test of line 31: if (finished) return;
PushStop == finished

\* variant of PushReturn: a push that reports Closed when it drops its item
PushReturnClosed(dropped) == IF dropped THEN "Closed" ELSE "void"

\* the value a push call hands back to its caller: push is void on both paths
PushReturn(dropped) == "void"

\* task_queue.push(task): std::unique_lock<std::mutex> lock(mtx)
PushLock(p) ==
    /\ ppc[p] = "idle"
    /\ pn[p] < MaxPush
    /\ mtx = Free
    /\ mtx' = p
    /\ ppc' = [ppc EXCEPT ![p] = "wait"]
    /\ UNCHANGED <<ctrvars, poolvars, chanvars, sumvars, exvars, q, cv_consumer, cv_producer, finished, pn, pushResult, pushOutcome,
                   cpc, cn, citem, spc, sn, hvars>>

\* cv_producer.wait: a woken thread re-acquires the mutex before it re-tests
PushRelock(p) ==
    /\ ppc[p] = "blocked"
    /\ p \notin cv_producer
    /\ mtx = Free
    /\ mtx' = p
    /\ ppc' = [ppc EXCEPT ![p] = "wait"]
    /\ UNCHANGED <<ctrvars, poolvars, chanvars, sumvars, exvars, q, cv_consumer, cv_producer, finished, pn, pushResult, pushOutcome,
                   cpc, cn, citem, spc, sn, hvars>>

\* cv_producer.wait(lock, pred) with pred false: release the mutex and block
PushWait(p) ==
    /\ ppc[p] = "wait"
    /\ mtx = p
    /\ ~PushPred
    /\ ppc' = [ppc EXCEPT ![p] = "blocked"]
    /\ mtx' = Free
    /\ cv_producer' = cv_producer \cup {p}
    /\ UNCHANGED <<ctrvars, poolvars, chanvars, sumvars, exvars, q, cv_consumer, finished, pn, pushResult, pushOutcome,
                   cpc, cn, citem, spc, sn, hvars>>

\* pred true, then if (finished) return; (the unique_lock unlocks on return)
PushDrop(p) ==
    /\ ppc[p] = "wait"
    /\ mtx = p
    /\ PushPred
    /\ PushStop
    /\ mtx' = Free
    /\ ppc' = [ppc EXCEPT ![p] = "idle"]
    /\ pn' = [pn EXCEPT ![p] = @ + 1]
    /\ pushResult' = [pushResult EXCEPT ![p] = PushReturn(TRUE)]
    /\ pushOutcome' = [pushOutcome EXCEPT ![p] = "dropped"]
    /\ UNCHANGED <<ctrvars, poolvars, chanvars, sumvars, exvars, q, cv_consumer, cv_producer, finished, cpc, cn, citem, spc, sn, hvars>>

\* pred true, finished false: q.push(std::move(item)); lock.unlock();
PushEnqueue(p) ==
    /\ ppc[p] = "wait"
    /\ mtx = p
    /\ PushPred
    /\ ~PushStop
    /\ q' = Append(q, Task(p, pn[p]))
    /\ enqueued' = Append(enqueued, Task(p, pn[p]))
    /\ mtx' = Free
    /\ ppc' = [ppc EXCEPT ![p] = "notify"]
    /\ UNCHANGED <<ctrvars, poolvars, chanvars, sumvars, exvars, cv_consumer, cv_producer, finished, pn, pushResult, pushOutcome,
                   cpc, cn, citem, spc, sn, dequeued, atClose, sinceClose, noneSeen>>

\* cv_consumer.notify_one(); and the return of push
PushNotify(p) ==
    /\ ppc[p] = "notify"
    /\ cv_consumer' \in NotifyOne(cv_consumer)
    /\ ppc' = [ppc EXCEPT ![p] = "idle"]
    /\ pn' = [pn EXCEPT ![p] = @ + 1]
    /\ pushResult' = [pushResult EXCEPT ![p] = PushReturn(FALSE)]
    /\ pushOutcome' = [pushOutcome EXCEPT ![p] = "enqueued"]
    /\ UNCHANGED <<ctrvars, poolvars, chanvars, sumvars, exvars, q, mtx, cv_producer, finished, cpc, cn, citem, spc, sn, hvars>>

\* variant of PopPred: the wait returns on any wake-up, its predicate untested
PopPredAnyWakeup == TRUE

\* -------------------------------------------------------------------- pop
\* the predicate of cv_consumer.wait in pop
PopPred == Len(q) > 0 \/ finished

\* variant of PopEnd: nullopt as soon as finished is set, items buffered or not
PopEndOnFinished == finished \/ Len(q) = 0

\* the two tests after the wait: (q.empty() && finished), then q.empty()
PopEnd == (Len(q) = 0 /\ finished) \/ Len(q) = 0

\* variant of PopFront: the newest item instead of the oldest
PopBack(s) == s[Len(s)]

\* the item pop hands out: q.front()
PopFront(s) == Head(s)

\* variant of PopRest: the front item stays in the queue
PopRestKept(s) == s

\* what q.pop() leaves in the queue
PopRest(s) == Tail(s)

\* task_queue.pop(): std::unique_lock<std::mutex> lock(mtx)
PopLock(c) ==
    /\ cpc[c] = "idle"
    /\ cn[c] < MaxPop
    /\ mtx = Free
    /\ mtx' = c
    /\ cpc' = [cpc EXCEPT ![c] = "wait"]
    /\ UNCHANGED <<ctrvars, poolvars, chanvars, sumvars, exvars, q, cv_consumer, cv_producer, finished, ppc, pn, pushResult, pushOutcome,
                   cn, citem, spc, sn, hvars>>

\* cv_consumer.wait: a woken thread re-acquires the mutex before it re-tests
PopRelock(c) ==
    /\ cpc[c] = "blocked"
    /\ c \notin cv_consumer
    /\ mtx = Free
    /\ mtx' = c
    /\ cpc' = [cpc EXCEPT ![c] = "wait"]
    /\ UNCHANGED <<ctrvars, poolvars, chanvars, sumvars, exvars, q, cv_consumer, cv_producer, finished, ppc, pn, pushResult, pushOutcome,
                   cn, citem, spc, sn, hvars>>

\* cv_consumer.wait(lock, pred) with pred false: release the mutex and block
PopWait(c) ==
    /\ cpc[c] = "wait"
    /\ mtx = c
    /\ ~PopPred
    /\ cpc' = [cpc EXCEPT ![c] = "blocked"]
    /\ mtx' = Free
    /\ cv_consumer' = cv_consumer \cup {c}
    /\ UNCHANGED <<ctrvars, poolvars, chanvars, sumvars, exvars, q, cv_producer, finished, ppc, pn, pushResult, pushOutcome,
                   cn, citem, spc, sn, hvars>>

\* pred true and the queue is empty: return std::nullopt;
PopNone(c) ==
    /\ cpc[c] = "wait"
    /\ mtx = c
    /\ PopPred
    /\ PopEnd
    /\ mtx' = Free
    /\ cpc' = [cpc EXCEPT ![c] = "idle"]
    /\ cn' = [cn EXCEPT ![c] = @ + 1]
    /\ noneSeen' = TRUE
    /\ UNCHANGED <<ctrvars, poolvars, chanvars, sumvars, exvars, q, cv_consumer, cv_producer, finished, ppc, pn, pushResult, pushOutcome,
                   citem, spc, sn, enqueued, dequeued, atClose, sinceClose>>

\* T item = std::move(q.front()); q.pop(); lock.unlock();
PopTake(c) ==
    /\ cpc[c] = "wait"
    /\ mtx = c
    /\ PopPred
    /\ ~PopEnd
    /\ citem' = [citem EXCEPT ![c] = PopFront(q)]
    /\ q' = PopRest(q)
    /\ dequeued' = Append(dequeued, PopFront(q))
    /\ sinceClose' = IF finished THEN Append(sinceClose, PopFront(q)) ELSE sinceClose
    /\ mtx' = Free
    /\ cpc' = [cpc EXCEPT ![c] = "notify"]
    /\ UNCHANGED <<ctrvars, poolvars, chanvars, sumvars, exvars, cv_consumer, cv_producer, finished, ppc, pn, pushResult, pushOutcome,
                   cn, spc, sn, enqueued, atClose, noneSeen>>

\* cv_producer.notify_one(); return item;
PopNotify(c) ==
    /\ cpc[c] = "notify"
    /\ cv_producer' \in NotifyOne(cv_producer)
    /\ cpc' = [cpc EXCEPT ![c] = "idle"]
    /\ cn' = [cn EXCEPT ![c] = @ + 1]
    /\ citem' = [citem EXCEPT ![c] = 0]
    /\ UNCHANGED <<ctrvars, poolvars, chanvars, sumvars, exvars, q, mtx, cv_consumer, finished, ppc, pn, pushResult, pushOutcome, spc, sn, hvars>>

\* ----------------------------------------------------------- set_finished
\* task_queue.set_finished(): std::lock_guard<std::mutex> lock(mtx)
CloseLock ==
    /\ spc = "idle"
    /\ sn < MaxClose
    /\ mtx = Free
    /\ mtx' = Closer
    /\ spc' = "locked"
    /\ UNCHANGED <<ctrvars, poolvars, chanvars, sumvars, exvars, q, cv_consumer, cv_producer, finished, ppc, pn, pushResult, pushOutcome,
                   cpc, cn, citem, sn, hvars>>

\* variant of FinishedFlag: set_finished flips the flag
FinishedFlagToggled == ~finished

\* the value set_finished writes to finished
FinishedFlag == TRUE

\* the consumers set_finished wakes: cv_consumer.notify_all()
CloseWakeConsumers(cv) == NotifyAll(cv)

\* variant of CloseWakeProducers: cv_producer is not notified
CloseWakeNoProducer(cv) == cv

\* the producers set_finished wakes: cv_producer.notify_all()
CloseWakeProducers(cv) == NotifyAll(cv)

\* finished = true; cv_consumer.notify_all(); cv_producer.notify_all(); and the unlock
SetFinished ==
    /\ spc = "locked"
    /\ mtx = Closer
    /\ finished' = FinishedFlag
    /\ cv_consumer' = CloseWakeConsumers(cv_consumer)
    /\ cv_producer' = CloseWakeProducers(cv_producer)
    /\ mtx' = Free
    /\ spc' = "idle"
    /\ sn' = sn + 1
    /\ atClose' = q
    /\ sinceClose' = <<>>
    /\ UNCHANGED <<ctrvars, poolvars, chanvars, sumvars, exvars, q, ppc, pn, pushResult, pushOutcome, cpc, cn, citem,
                   enqueued, dequeued, noneSeen>>

\* a spurious wake-up of a thread blocked in a condition variable
SpuriousWake(t) ==
    /\ t \in cv_consumer \cup cv_producer
    /\ cv_consumer' = cv_consumer \ {t}
    /\ cv_producer' = cv_producer \ {t}
    /\ UNCHANGED <<ctrvars, poolvars, chanvars, sumvars, exvars, q, mtx, finished, tvars, hvars>>

ProducerStep(p) ==
    \/ PushLock(p)
    \/ PushRelock(p)
    \/ PushWait(p)
    \/ PushDrop(p)
    \/ PushEnqueue(p)
    \/ PushNotify(p)

ConsumerStep(c) ==
    \/ PopLock(c)
    \/ PopRelock(c)
    \/ PopWait(c)
    \/ PopNone(c)
    \/ PopTake(c)
    \/ PopNotify(c)

CloserStep ==
    \/ CloseLock
    \/ SetFinished

Next ==
    \/ \E p \in Producers : ProducerStep(p)
    \/ \E c \in Consumers : ConsumerStep(c)
    \/ CloserStep
    \/ \E t \in Producers \cup Consumers : SpuriousWake(t)

\* ======================================================= SimpleThreadPool
PoolInit ==
    /\ tasks = <<>>
    /\ queue_mutex = Free
    /\ condition = {}
    /\ stop = FALSE
    /\ wpc = [w \in Workers |-> "loop"]
    /\ wtask = [w \in Workers |-> 0]
    /\ terminated = FALSE
    /\ epc = [s \in Submitters |-> "idle"]
    /\ etask = [s \in Submitters |-> 0]
    /\ submitResult = [s \in Submitters |-> "none"]
    /\ dpc = "idle"
    /\ djoin = 0
    /\ ntasks = 0
    /\ kind = [t \in TaskIds |-> "none"]
    /\ body = [t \in TaskIds |-> "none"]
    /\ tstate = [t \in TaskIds |-> "none"]
    /\ fstate = [t \in TaskIds |-> "none"]
    /\ fval = [t \in TaskIds |-> 0]
    /\ gstate = [t \in TaskIds |-> "none"]
    /\ gval = [t \in TaskIds |-> 0]
    /\ atShutdown = {}
    /\ submitOutcome = [t \in TaskIds |-> "none"]
    /\ runs = [t \in TaskIds |-> 0]

\* ----------------------------------------------------------- worker lambda
\* the predicate of condition.wait in the worker
WorkerPred == stop \/ Len(tasks) > 0

\* variant of WorkerQuit: the worker leaves as soon as stop is set
WorkerQuitOnStop == stop

\* if (this->stop && this->tasks.empty()) return;
WorkerQuit == stop /\ Len(tasks) = 0

\* variant of TaskEscapes: the exception of a packaged task leaves task() too
TaskEscapesAlways(t) == body[t] = "throw"

\* whether the exception of a throwing task leaves task(): a packaged_task
\* stores it in its shared state, a plain std::function lets it through
TaskEscapes(t) == kind[t] = "void" /\ body[t] = "throw"

\* the value the tasks of main() compute: return i * i;
TaskValue(t) == t * t

\* std::unique_lock<std::mutex> lock(this->queue_mutex) at the top of the loop
WorkerLock(w) ==
    /\ ~terminated
    /\ wpc[w] = "loop"
    /\ queue_mutex = Free
    /\ queue_mutex' = w
    /\ wpc' = [wpc EXCEPT ![w] = "wait"]
    /\ UNCHANGED <<ctrvars, queuevars, chanvars, sumvars, exvars, atShutdown, submitOutcome, runs, tasks, condition, stop, wtask, terminated, epc, etask,
                   submitResult, dpc, djoin, ntasks, kind, body, tstate, fstate, fval,
                   gstate, gval>>

\* condition.wait: a woken worker re-acquires the mutex before it re-tests
WorkerRelock(w) ==
    /\ ~terminated
    /\ wpc[w] = "blocked"
    /\ w \notin condition
    /\ queue_mutex = Free
    /\ queue_mutex' = w
    /\ wpc' = [wpc EXCEPT ![w] = "wait"]
    /\ UNCHANGED <<ctrvars, queuevars, chanvars, sumvars, exvars, atShutdown, submitOutcome, runs, tasks, condition, stop, wtask, terminated, epc, etask,
                   submitResult, dpc, djoin, ntasks, kind, body, tstate, fstate, fval,
                   gstate, gval>>

\* condition.wait(lock, pred) with pred false: release the mutex and block
WorkerWait(w) ==
    /\ ~terminated
    /\ wpc[w] = "wait"
    /\ queue_mutex = w
    /\ ~WorkerPred
    /\ queue_mutex' = Free
    /\ condition' = condition \cup {w}
    /\ wpc' = [wpc EXCEPT ![w] = "blocked"]
    /\ UNCHANGED <<ctrvars, queuevars, chanvars, sumvars, exvars, atShutdown, submitOutcome, runs, tasks, stop, wtask, terminated, epc, etask,
                   submitResult, dpc, djoin, ntasks, kind, body, tstate, fstate, fval,
                   gstate, gval>>

\* pred true, stop set and queue empty: return; (the thread function ends)
WorkerExit(w) ==
    /\ ~terminated
    /\ wpc[w] = "wait"
    /\ queue_mutex = w
    /\ WorkerPred
    /\ WorkerQuit
    /\ queue_mutex' = Free
    /\ wpc' = [wpc EXCEPT ![w] = "exited"]
    /\ UNCHANGED <<ctrvars, queuevars, chanvars, sumvars, exvars, atShutdown, submitOutcome, runs, tasks, condition, stop, wtask, terminated, epc, etask,
                   submitResult, dpc, djoin, ntasks, kind, body, tstate, fstate, fval,
                   gstate, gval>>

\* variant of MutexAfterTake: the lock's scope extends over the call of the task
MutexAfterTakeHeld(w) == w

\* the owner of queue_mutex when the worker reaches task(): the braces around
\* the unique_lock end before it
MutexAfterTake(w) == Free

\* variant of TasksAfterTake: the front task is left in the queue
TasksAfterTakeKept(s) == s

\* what this->tasks.pop() leaves in the queue
TasksAfterTake(s) == Tail(s)

\* task = std::move(this->tasks.front()); this->tasks.pop(); and the end of the lock's scope
WorkerTake(w) ==
    /\ ~terminated
    /\ wpc[w] = "wait"
    /\ queue_mutex = w
    /\ WorkerPred
    /\ ~WorkerQuit
    /\ wtask' = [wtask EXCEPT ![w] = Head(tasks)]
    /\ tasks' = TasksAfterTake(tasks)
    /\ tstate' = [tstate EXCEPT ![Head(tasks)] = "running"]
    /\ runs' = [runs EXCEPT ![Head(tasks)] = @ + 1]
    /\ queue_mutex' = MutexAfterTake(w)
    /\ wpc' = [wpc EXCEPT ![w] = "run"]
    /\ UNCHANGED <<ctrvars, queuevars, chanvars, sumvars, exvars, atShutdown, submitOutcome, condition, stop, terminated, epc, etask,
                   submitResult, dpc, djoin, ntasks, kind, body, fstate, fval,
                   gstate, gval>>

\* task(); a body that returns, or a packaged_task that stores the outcome
WorkerRun(w) ==
    /\ ~terminated
    /\ wpc[w] = "run"
    /\ ~TaskEscapes(wtask[w])
    /\ LET t == wtask[w] IN
         /\ tstate' = [tstate EXCEPT ![t] = "done"]
         /\ IF kind[t] = "packaged"
              THEN /\ fstate' = [fstate EXCEPT ![t] = IF body[t] = "ok" THEN "value" ELSE "exception"]
                   /\ fval' = [fval EXCEPT ![t] = IF body[t] = "ok" THEN TaskValue(t) ELSE t]
              ELSE UNCHANGED <<ctrvars, fstate, fval>>
    /\ wtask' = [wtask EXCEPT ![w] = 0]
    /\ wpc' = [wpc EXCEPT ![w] = "loop"]
    /\ UNCHANGED <<ctrvars, queuevars, chanvars, sumvars, exvars, atShutdown, submitOutcome, runs, tasks, queue_mutex, condition, stop, terminated, epc, etask,
                   submitResult, dpc, djoin, ntasks, kind, body, gstate, gval>>

\* task(); the exception leaves the thread function: std::terminate
WorkerThrow(w) ==
    /\ ~terminated
    /\ wpc[w] = "run"
    /\ TaskEscapes(wtask[w])
    /\ tstate' = [tstate EXCEPT ![wtask[w]] = "done"]
    /\ wpc' = [wpc EXCEPT ![w] = "killed"]
    /\ terminated' = TRUE
    /\ UNCHANGED <<ctrvars, queuevars, chanvars, sumvars, exvars, atShutdown, submitOutcome, runs, tasks, queue_mutex, condition, stop, wtask, epc, etask,
                   submitResult, dpc, djoin, ntasks, kind, body, fstate, fval,
                   gstate, gval>>

\* ------------------------------------------------------------------ enqueue
\* variant of SubmitRefused: the stop test left out
SubmitRefusedNever == FALSE

\* the test both submissions make under the lock: if (stop)
SubmitRefused == stop

\* variant of SubmitAdmitted: a submission also needs room below a capacity bound
SubmitAdmittedIfRoom == ~SubmitRefused /\ Len(tasks) < PendingBound

\* variant of SubmitAdmitted: a submission goes through whatever stop is
SubmitAdmittedAlways == TRUE

\* what lets a submission through to tasks.emplace: the if (stop) test alone
SubmitAdmitted == ~SubmitRefused

\* variant of EnqueueReturn: a refused enqueue gives its caller a failure
EnqueueReturnStopped(refused) == IF refused THEN "PoolStopped" ELSE "void"

\* what enqueue gives its caller: it is declared void, and the refusal is a
\* line on std::cerr followed by a bare return
EnqueueReturn(refused) == "void"

\* enqueue(f): std::lock_guard<std::mutex> lock(queue_mutex)
EnqueueLock(s, b) ==
    /\ ~terminated
    /\ epc[s] = "idle"
    /\ dpc # "done"
    /\ ntasks < MaxTasks
    /\ queue_mutex = Free
    /\ queue_mutex' = s
    /\ ntasks' = ntasks + 1
    /\ kind' = [kind EXCEPT ![ntasks + 1] = "void"]
    /\ body' = [body EXCEPT ![ntasks + 1] = b]
    /\ tstate' = [tstate EXCEPT ![ntasks + 1] = "created"]
    /\ etask' = [etask EXCEPT ![s] = ntasks + 1]
    /\ epc' = [epc EXCEPT ![s] = "enqueue"]
    /\ UNCHANGED <<ctrvars, queuevars, chanvars, sumvars, exvars, atShutdown, submitOutcome, runs, tasks, condition, stop, wpc, wtask, terminated,
                   submitResult, dpc, djoin, fstate, fval, gstate, gval>>

\* if (stop) { std::cerr << "Warning"; return; }
EnqueueReject(s) ==
    /\ ~terminated
    /\ epc[s] = "enqueue"
    /\ queue_mutex = s
    /\ SubmitRefused
    /\ queue_mutex' = Free
    /\ tstate' = [tstate EXCEPT ![etask[s]] = "rejected"]
    /\ submitResult' = [submitResult EXCEPT ![s] = EnqueueReturn(TRUE)]
    /\ submitOutcome' = [submitOutcome EXCEPT ![etask[s]] = EnqueueReturn(TRUE)]
    /\ etask' = [etask EXCEPT ![s] = 0]
    /\ epc' = [epc EXCEPT ![s] = "idle"]
    /\ UNCHANGED <<ctrvars, queuevars, chanvars, sumvars, exvars, atShutdown, runs, tasks, condition, stop, wpc, wtask, terminated,
                   dpc, djoin, ntasks, kind, body, fstate, fval, gstate, gval>>

\* tasks.emplace(std::move(f)); and the end of the lock's scope
EnqueueAccept(s) ==
    /\ ~terminated
    /\ epc[s] = "enqueue"
    /\ queue_mutex = s
    /\ SubmitAdmitted
    /\ tasks' = Append(tasks, etask[s])
    /\ tstate' = [tstate EXCEPT ![etask[s]] = "queued"]
    /\ queue_mutex' = Free
    /\ epc' = [epc EXCEPT ![s] = "enqueue_notify"]
    /\ UNCHANGED <<ctrvars, queuevars, chanvars, sumvars, exvars, atShutdown, submitOutcome, runs, condition, stop, wpc, wtask, terminated, etask,
                   submitResult, dpc, djoin, ntasks, kind, body, fstate, fval, gstate, gval>>

\* condition.notify_one(); and the return of enqueue
EnqueueNotify(s) ==
    /\ ~terminated
    /\ epc[s] = "enqueue_notify"
    /\ condition' \in NotifyOne(condition)
    /\ submitResult' = [submitResult EXCEPT ![s] = EnqueueReturn(FALSE)]
    /\ submitOutcome' = [submitOutcome EXCEPT ![etask[s]] = EnqueueReturn(FALSE)]
    /\ etask' = [etask EXCEPT ![s] = 0]
    /\ epc' = [epc EXCEPT ![s] = "idle"]
    /\ UNCHANGED <<ctrvars, queuevars, chanvars, sumvars, exvars, atShutdown, runs, tasks, queue_mutex, stop, wpc, wtask, terminated,
                   dpc, djoin, ntasks, kind, body, tstate, fstate, fval, gstate, gval>>

\* ------------------------------------------------------------- enqueue_task
\* make_shared<packaged_task>, task_ptr->get_future(), then the lock_guard
TaskLock(s, b) ==
    /\ ~terminated
    /\ epc[s] = "idle"
    /\ dpc # "done"
    /\ ntasks < MaxTasks
    /\ queue_mutex = Free
    /\ queue_mutex' = s
    /\ ntasks' = ntasks + 1
    /\ kind' = [kind EXCEPT ![ntasks + 1] = "packaged"]
    /\ body' = [body EXCEPT ![ntasks + 1] = b]
    /\ tstate' = [tstate EXCEPT ![ntasks + 1] = "created"]
    /\ fstate' = [fstate EXCEPT ![ntasks + 1] = "pending"]
    /\ etask' = [etask EXCEPT ![s] = ntasks + 1]
    /\ epc' = [epc EXCEPT ![s] = "task"]
    /\ UNCHANGED <<ctrvars, queuevars, chanvars, sumvars, exvars, atShutdown, submitOutcome, runs, tasks, condition, stop, wpc, wtask, terminated,
                   submitResult, dpc, djoin, fval, gstate, gval>>

\* if (stop) throw std::runtime_error(...); the future and the task are destroyed
TaskReject(s) ==
    /\ ~terminated
    /\ epc[s] = "task"
    /\ queue_mutex = s
    /\ SubmitRefused
    /\ queue_mutex' = Free
    /\ tstate' = [tstate EXCEPT ![etask[s]] = "rejected"]
    /\ fstate' = [fstate EXCEPT ![etask[s]] = "none"]
    /\ submitResult' = [submitResult EXCEPT ![s] = "runtime_error"]
    /\ submitOutcome' = [submitOutcome EXCEPT ![etask[s]] = "runtime_error"]
    /\ etask' = [etask EXCEPT ![s] = 0]
    /\ epc' = [epc EXCEPT ![s] = "idle"]
    /\ UNCHANGED <<ctrvars, queuevars, chanvars, sumvars, exvars, atShutdown, runs, tasks, condition, stop, wpc, wtask, terminated,
                   dpc, djoin, ntasks, kind, body, fval, gstate, gval>>

\* tasks.emplace([task_ptr](){ (*task_ptr)(); }); and the end of the lock's scope
TaskAccept(s) ==
    /\ ~terminated
    /\ epc[s] = "task"
    /\ queue_mutex = s
    /\ SubmitAdmitted
    /\ tasks' = Append(tasks, etask[s])
    /\ tstate' = [tstate EXCEPT ![etask[s]] = "queued"]
    /\ queue_mutex' = Free
    /\ epc' = [epc EXCEPT ![s] = "task_notify"]
    /\ UNCHANGED <<ctrvars, queuevars, chanvars, sumvars, exvars, atShutdown, submitOutcome, runs, condition, stop, wpc, wtask, terminated, etask,
                   submitResult, dpc, djoin, ntasks, kind, body, fstate, fval, gstate, gval>>

\* variant of TaskReturnReady: the future is returned once the task has run
TaskReturnWhenDone(t) == tstate[t] = "done"

\* what return res; waits for: nothing, whatever has become of the task
TaskReturnReady(t) == TRUE

\* condition.notify_one(); return res;
TaskNotify(s) ==
    /\ ~terminated
    /\ epc[s] = "task_notify"
    /\ TaskReturnReady(etask[s])
    /\ condition' \in NotifyOne(condition)
    /\ submitResult' = [submitResult EXCEPT ![s] = "future"]
    /\ submitOutcome' = [submitOutcome EXCEPT ![etask[s]] = "future"]
    /\ etask' = [etask EXCEPT ![s] = 0]
    /\ epc' = [epc EXCEPT ![s] = "idle"]
    /\ UNCHANGED <<ctrvars, queuevars, chanvars, sumvars, exvars, atShutdown, runs, tasks, queue_mutex, stop, wpc, wtask, terminated,
                   dpc, djoin, ntasks, kind, body, tstate, fstate, fval, gstate, gval>>

\* results[i].get() on a future enqueue_task has returned: returns once the
\* shared state is ready
FutureGet(t) ==
    /\ ~terminated
    /\ tstate[t] \in {"queued", "running", "done"}
    /\ \A s \in Submitters : etask[s] # t
    /\ fstate[t] \in {"value", "exception"}
    /\ gstate[t] = "none"
    /\ gstate' = [gstate EXCEPT ![t] = fstate[t]]
    /\ gval' = [gval EXCEPT ![t] = fval[t]]
    /\ UNCHANGED <<ctrvars, queuevars, chanvars, sumvars, exvars, atShutdown, submitOutcome, runs, tasks, queue_mutex, condition, stop, wpc, wtask, terminated,
                   epc, etask, submitResult, dpc, djoin, ntasks, kind, body, tstate,
                   fstate, fval>>

\* ------------------------------------------------------- ~SimpleThreadPool
\* std::lock_guard<std::mutex> lock(queue_mutex)
DtorLock ==
    /\ ~terminated
    /\ dpc = "idle"
    /\ queue_mutex = Free
    /\ queue_mutex' = Destructor
    /\ dpc' = "locked"
    /\ atShutdown' = {tasks[i] : i \in 1..Len(tasks)}
    /\ UNCHANGED <<ctrvars, queuevars, chanvars, sumvars, exvars, submitOutcome, runs, tasks, condition, stop, wpc, wtask, terminated, epc, etask,
                   submitResult, djoin, ntasks, kind, body, tstate, fstate, fval,
                   gstate, gval>>

\* variant of TasksAfterStop: the destructor empties the queue
TasksAfterStopCleared(s) == <<>>

\* what the destructor leaves in the queue: it does not touch tasks
TasksAfterStop(s) == s

\* variant of StopFlag: the destructor writes false
StopFlagCleared == FALSE

\* the value the destructor writes to stop
StopFlag == TRUE

\* stop = true; and the end of the lock's scope
DtorStop ==
    /\ ~terminated
    /\ dpc = "locked"
    /\ queue_mutex = Destructor
    /\ stop' = StopFlag
    /\ tasks' = TasksAfterStop(tasks)
    /\ queue_mutex' = Free
    /\ dpc' = "notify"
    /\ UNCHANGED <<ctrvars, queuevars, chanvars, sumvars, exvars, atShutdown, submitOutcome, runs, condition, wpc, wtask, terminated, epc, etask,
                   submitResult, djoin, ntasks, kind, body, tstate, fstate, fval,
                   gstate, gval>>

\* condition.notify_all();
DtorNotify ==
    /\ ~terminated
    /\ dpc = "notify"
    /\ condition' = NotifyAll(condition)
    /\ dpc' = "join"
    /\ UNCHANGED <<ctrvars, queuevars, chanvars, sumvars, exvars, atShutdown, submitOutcome, runs, tasks, queue_mutex, stop, wpc, wtask, terminated, epc, etask,
                   submitResult, djoin, ntasks, kind, body, tstate, fstate, fval,
                   gstate, gval>>

\* variant of JoinReturns: the destructor does not wait for the worker
JoinReturnsAtOnce(w) == TRUE

\* worker.join() returns once the worker's thread function has returned
JoinReturns(w) == wpc[w] = "exited"

\* for (std::thread &worker : workers) worker.join(); one join, and the return after the last
DtorJoin ==
    /\ ~terminated
    /\ dpc = "join"
    /\ djoin < Len(WorkerOrder)
    /\ JoinReturns(WorkerOrder[djoin + 1])
    /\ djoin' = djoin + 1
    /\ dpc' = IF djoin + 1 = Len(WorkerOrder) THEN "done" ELSE "join"
    /\ UNCHANGED <<ctrvars, queuevars, chanvars, sumvars, exvars, atShutdown, submitOutcome, runs, tasks, queue_mutex, condition, stop, wpc, wtask, terminated,
                   epc, etask, submitResult, ntasks, kind, body, tstate, fstate, fval,
                   gstate, gval>>

\* a spurious wake-up of a worker blocked in condition.wait
WorkerSpuriousWake(w) ==
    /\ ~terminated
    /\ w \in condition
    /\ condition' = condition \ {w}
    /\ UNCHANGED <<ctrvars, queuevars, chanvars, sumvars, exvars, atShutdown, submitOutcome, runs, tasks, queue_mutex, stop, wpc, wtask, terminated, epc, etask,
                   submitResult, dpc, djoin, ntasks, kind, body, tstate, fstate, fval,
                   gstate, gval>>

WorkerStep(w) ==
    \/ WorkerLock(w)
    \/ WorkerRelock(w)
    \/ WorkerWait(w)
    \/ WorkerExit(w)
    \/ WorkerTake(w)
    \/ WorkerRun(w)
    \/ WorkerThrow(w)

SubmitStep(s) ==
    \/ \E b \in {"ok", "throw"} : EnqueueLock(s, b)
    \/ EnqueueReject(s)
    \/ EnqueueAccept(s)
    \/ EnqueueNotify(s)
    \/ \E b \in {"ok", "throw"} : TaskLock(s, b)
    \/ TaskReject(s)
    \/ TaskAccept(s)
    \/ TaskNotify(s)

DtorStep ==
    \/ DtorLock
    \/ DtorStop
    \/ DtorNotify
    \/ DtorJoin

PoolNext ==
    \/ \E w \in Workers : WorkerStep(w)
    \/ \E s \in Submitters : SubmitStep(s)
    \/ \E t \in TaskIds : FutureGet(t)
    \/ DtorStep
    \/ \E w \in Workers : WorkerSpuriousWake(w)

\* ================================================= std::promise / std::future
ChanInit ==
    /\ iter = 0
    /\ mainpc = "loop"
    /\ riskypc = "none"
    /\ caught = "none"
    /\ shared = [c \in Channels |-> "none"]
    /\ sharedval = [c \in Channels |-> <<>>]
    /\ valid = [c \in Channels |-> FALSE]
    /\ received = [c \in Channels |-> [out |-> "none", val |-> <<>>]]
    /\ setCalls = [c \in Channels |-> <<>>]
    /\ getCalls = [c \in Channels |-> <<>>]

\* what the try block of risky_worker does with its input
RiskyOutcome(input) ==
    IF input < 0 THEN "invalid_argument"
    ELSE IF input = 0 THEN "runtime_error"
    ELSE "value"

\* std::string result = "Processed input " + std::to_string(input)
Processed(input) == <<"Processed input ", input>>

\* variant of SetCall: a set on a ready shared state stores the new outcome
SetCallOverwrite(c, k, v) == [state |-> k, val |-> v, result |-> "ok"]

\* result_promise.set_value(v) / set_exception(e) on channel c: stores the
\* outcome and makes the shared state ready, or, when the shared state already
\* holds one, throws std::future_error(promise_already_satisfied) and stores nothing
SetCall(c, k, v) ==
    IF shared[c] = "pending"
        THEN [state |-> k, val |-> v, result |-> "ok"]
        ELSE [state |-> shared[c], val |-> sharedval[c],
              result |-> "promise_already_satisfied"]

\* variant of ValidAfterGet: get leaves the future with its shared state
ValidAfterGetKept == TRUE

\* worker_future.get() releases the shared state: valid() is false afterwards
ValidAfterGet == FALSE

\* worker_future.get() on channel c: the stored value, the stored exception
\* rethrown, or std::future_error(no_state) when the future has no shared state
GetCall(c) ==
    IF valid[c]
        THEN [out |-> shared[c], val |-> sharedval[c]]
        ELSE [out |-> "no_state", val |-> <<>>]

\* std::promise<std::string> worker_promise; worker_promise.get_future();
\* std::thread worker(risky_worker, test_input, std::move(worker_promise));
MainLaunch ==
    /\ mainpc = "loop"
    /\ iter < Len(Inputs)
    /\ iter' = iter + 1
    /\ shared' = [shared EXCEPT ![iter + 1] = "pending"]
    /\ valid' = [valid EXCEPT ![iter + 1] = TRUE]
    /\ riskypc' = "try"
    /\ mainpc' = "get"
    /\ UNCHANGED <<ctrvars, queuevars, poolvars, sumvars, exvars, caught, sharedval, received, setCalls, getCalls>>

\* the try block up to set_value: the two throws, or the result string
RiskyTry ==
    /\ riskypc = "try"
    /\ IF RiskyOutcome(Inputs[iter]) = "value"
         THEN /\ riskypc' = "set_value"
              /\ UNCHANGED caught
         ELSE /\ riskypc' = "catch"
              /\ caught' = RiskyOutcome(Inputs[iter])
    /\ UNCHANGED <<ctrvars, queuevars, poolvars, sumvars, exvars, iter, mainpc, shared, sharedval, valid, received,
                   setCalls, getCalls>>

\* a set call of the promise's holder on the current channel
DoSet(k, v) ==
    LET r == SetCall(iter, k, v) IN
        /\ shared' = [shared EXCEPT ![iter] = r.state]
        /\ sharedval' = [sharedval EXCEPT ![iter] = r.val]
        /\ setCalls' = [setCalls EXCEPT ![iter] = Append(@, r.result)]

\* result_promise.set_value(result);
RiskySetValue ==
    /\ riskypc = "set_value"
    /\ DoSet("value", Processed(Inputs[iter]))
    /\ riskypc' = "holding"
    /\ UNCHANGED <<ctrvars, queuevars, poolvars, sumvars, exvars, iter, mainpc, caught, valid, received, getCalls>>

\* catch (...) { result_promise.set_exception(std::current_exception()); }
RiskySetException ==
    /\ riskypc = "catch"
    /\ DoSet(caught, <<>>)
    /\ riskypc' = "holding"
    /\ caught' = "none"
    /\ UNCHANGED <<ctrvars, queuevars, poolvars, sumvars, exvars, iter, mainpc, valid, received, getCalls>>

\* a further set_value or set_exception by the holder of the promise before it
\* lets go of it
FurtherSet(k, v) ==
    /\ riskypc = "holding"
    /\ Len(setCalls[iter]) < MaxSets
    /\ DoSet(k, v)
    /\ UNCHANGED <<ctrvars, queuevars, poolvars, sumvars, exvars, iter, mainpc, riskypc, caught, valid, received,
                   getCalls>>

\* the end of risky_worker
RiskyReturn ==
    /\ riskypc = "holding"
    /\ riskypc' = "returned"
    /\ UNCHANGED <<ctrvars, queuevars, poolvars, sumvars, exvars, iter, mainpc, caught, shared, sharedval, valid,
                   received, setCalls, getCalls>>

\* variant of GetReturns: get does not wait for the shared state
GetReturnsAtOnce(c) == TRUE

\* worker_future.get() waits until the shared state is ready (a future without
\* shared state has nothing to wait for)
GetReturns(c) == ~valid[c] \/ shared[c] # "pending"

\* a get call of the future's holder on the current channel; it returns once
\* the shared state is ready
DoGet ==
    LET g == GetCall(iter) IN
        /\ GetReturns(iter)
        /\ getCalls' = [getCalls EXCEPT ![iter] = Append(@, g.out)]
        /\ received' = [received EXCEPT ![iter] = IF g.out = "no_state" THEN @ ELSE g]
        /\ valid' = [valid EXCEPT ![iter] = IF g.out = "no_state" THEN @ ELSE ValidAfterGet]

\* std::string result = worker_future.get(); and the catch clauses
MainGet ==
    /\ mainpc = "get"
    /\ DoGet
    /\ mainpc' = "got"
    /\ UNCHANGED <<ctrvars, queuevars, poolvars, sumvars, exvars, iter, riskypc, caught, shared, sharedval, setCalls>>

\* a further get by the holder of the future before the join
FurtherGet ==
    /\ mainpc = "got"
    /\ Len(getCalls[iter]) < MaxGets
    /\ DoGet
    /\ UNCHANGED <<ctrvars, queuevars, poolvars, sumvars, exvars, iter, mainpc, riskypc, caught, shared, sharedval,
                   setCalls>>

\* worker.join(); and the next iteration of the loop
MainJoin ==
    /\ mainpc = "got"
    /\ riskypc = "returned"
    /\ riskypc' = "none"
    /\ mainpc' = IF iter = Len(Inputs) THEN "end" ELSE "loop"
    /\ UNCHANGED <<ctrvars, queuevars, poolvars, sumvars, exvars, iter, caught, shared, sharedval, valid, received,
                   setCalls, getCalls>>

\* ------------------------------------------- 07_promise_and_future.cpp
SumInit ==
    /\ summain = "start"
    /\ sumpc = "none"
    /\ sumidx = 0
    /\ sum = 0
    /\ sumshared = "none"
    /\ sumstored = 0
    /\ sumvalid = FALSE
    /\ sumresult = [out |-> "none", val |-> 0]

\* std::promise<long long> sum_promise; sum_promise.get_future();
\* std::thread worker(calculate_sum, std::ref(numbers), std::move(sum_promise));
SumLaunch ==
    /\ summain = "start"
    /\ sumshared' = "pending"
    /\ sumvalid' = TRUE
    /\ sumpc' = "loop"
    /\ summain' = "get"
    /\ UNCHANGED <<ctrvars, queuevars, poolvars, chanvars, exvars, sumidx, sum, sumstored, sumresult>>

\* for (int val : data) { sum += val; ... }: one iteration
SumAdd ==
    /\ sumpc = "loop"
    /\ sumidx < Len(Numbers)
    /\ sum' = sum + Numbers[sumidx + 1]
    /\ sumidx' = sumidx + 1
    /\ UNCHANGED <<ctrvars, queuevars, poolvars, chanvars, exvars, summain, sumpc, sumshared, sumstored,
                   sumvalid, sumresult>>

\* the argument of result_promise.set_value(sum)
SumPayload == sum

\* result_promise.set_value(sum); and the end of calculate_sum
SumSetValue ==
    /\ sumpc = "loop"
    /\ sumidx = Len(Numbers)
    /\ sumshared = "pending"
    /\ sumshared' = "value"
    /\ sumstored' = SumPayload
    /\ sumpc' = "returned"
    /\ UNCHANGED <<ctrvars, queuevars, poolvars, chanvars, exvars, summain, sumidx, sum, sumvalid, sumresult>>

\* long long result = sum_future.get(); returns once the shared state is ready
SumGet ==
    /\ summain = "get"
    /\ sumvalid
    /\ sumshared # "pending"
    /\ sumresult' = [out |-> sumshared, val |-> sumstored]
    /\ sumvalid' = FALSE
    /\ summain' = "join"
    /\ UNCHANGED <<ctrvars, queuevars, poolvars, chanvars, exvars, sumpc, sumidx, sum, sumshared, sumstored>>

\* worker.join(); and the end of main
SumJoin ==
    /\ summain = "join"
    /\ sumpc = "returned"
    /\ summain' = "end"
    /\ UNCHANGED <<ctrvars, queuevars, poolvars, chanvars, exvars, sumpc, sumidx, sum, sumshared, sumstored,
                   sumvalid, sumresult>>

\* the outcomes a further set call may carry
FurtherOutcomes == {<<"value", <<"other">>>>, <<"runtime_error", <<>>>>}

ChanNext ==
    \/ MainLaunch
    \/ RiskyTry
    \/ RiskySetValue
    \/ RiskySetException
    \/ \E o \in FurtherOutcomes : FurtherSet(o[1], o[2])
    \/ RiskyReturn
    \/ MainGet
    \/ FurtherGet
    \/ MainJoin
    \/ SumLaunch
    \/ SumAdd
    \/ SumSetValue
    \/ SumGet
    \/ SumJoin

\* ------------------------------------- the example of 06_task_queue.cpp
ExInit ==
    /\ cexit = [c \in Consumers |-> FALSE]
    /\ exmain = "join_producers"

\* producer(id) has made its pushes and returned
ProducerFinished(p) == pn[p] = MaxPush /\ ppc[p] = "idle"

\* every task the producers push: id * 100 + i
AllTasks == {Task(p, i) : p \in Producers, i \in 0..(MaxPush - 1)}

\* consumer(id): while (true) { task = task_queue.pop(); ... }: the next call of
\* pop, as long as the loop has not ended
ExPopLock(c) ==
    /\ ~cexit[c]
    /\ cpc[c] = "idle"
    /\ mtx = Free
    /\ mtx' = c
    /\ cpc' = [cpc EXCEPT ![c] = "wait"]
    /\ UNCHANGED <<ctrvars, poolvars, chanvars, sumvars, exvars, q, cv_consumer, cv_producer, finished,
                   ppc, pn, pushResult, pushOutcome, cn, citem, spc, sn, hvars>>

\* pop returns std::nullopt and the consumer leaves its loop: else break;
ExPopNone(c) ==
    /\ cpc[c] = "wait"
    /\ mtx = c
    /\ PopPred
    /\ PopEnd
    /\ mtx' = Free
    /\ cpc' = [cpc EXCEPT ![c] = "idle"]
    /\ cn' = [cn EXCEPT ![c] = @ + 1]
    /\ noneSeen' = TRUE
    /\ cexit' = [cexit EXCEPT ![c] = TRUE]
    /\ UNCHANGED <<ctrvars, poolvars, chanvars, sumvars, exmain, q, cv_consumer, cv_producer, finished,
                   ppc, pn, pushResult, pushOutcome, citem, spc, sn,
                   enqueued, dequeued, atClose, sinceClose>>

\* variant of ProducersJoined: main does not wait for the producers
ProducersJoinedAtOnce == TRUE

\* for (std::thread& p : producers) p.join();
ProducersJoined == \A p \in Producers : ProducerFinished(p)

\* main after the joins of the producers: task_queue.set_finished() takes the mutex
ExCloseLock ==
    /\ exmain = "join_producers"
    /\ ProducersJoined
    /\ mtx = Free
    /\ mtx' = Closer
    /\ spc' = "locked"
    /\ exmain' = "closing"
    /\ UNCHANGED <<ctrvars, poolvars, chanvars, sumvars, cexit, q, cv_consumer, cv_producer, finished,
                   ppc, pn, pushResult, pushOutcome, cpc, cn, citem, sn, hvars>>

\* for (std::thread& c : consumers) c.join(); and the return of main
ExJoinConsumers ==
    /\ exmain = "closing"
    /\ spc = "idle"
    /\ \A c \in Consumers : cexit[c]
    /\ exmain' = "end"
    /\ UNCHANGED <<ctrvars, poolvars, chanvars, sumvars, cexit, qvars, tvars, hvars>>

ExampleNext ==
    \/ \E p \in Producers :
          PushLock(p) \/ PushRelock(p) \/ PushWait(p) \/ PushEnqueue(p) \/ PushNotify(p)
    \/ \E c \in Consumers :
          ExPopLock(c) \/ PopRelock(c) \/ PopWait(c) \/ ExPopNone(c) \/ PopTake(c) \/ PopNotify(c)
    \/ ExCloseLock
    \/ SetFinished
    \/ ExJoinConsumers
    \/ \E t \in Producers \cup Consumers : SpuriousWake(t)

\* ---------------------------------------------------------------------
\* The shared counters: 03_mutex.cpp, 04_lock_guard.cpp, 05_atomic.cpp
\* ---------------------------------------------------------------------

\* const int NUM_THREADS = 4
NumThreads == 4

\* iterations of each thread's loop: ITERATIONS_MUTEX, ITERATIONS_LG,
\* ITERATIONS_ATOMIC (100000 in the programs)
Iterations == 2

Incrementers == 1..NumThreads

\* counter_mutex owned by no thread
Unowned == 0

Programs == {"manual_lock", "lock_guard", "atomic"}

\* the value main prints as expected
Expected == NumThreads * Iterations

\* the loop test i < ITERATIONS: into the body, or out of the function
LoopPc(i) == IF i < Iterations THEN "body" ELSE "done"

CounterInit ==
    /\ cprog = "none"
    /\ counter_mutex = Unowned
    /\ shared_counter = 0
    /\ tpc = [t \in Incrementers |-> "idle"]
    /\ ti = [t \in Incrementers |-> 0]
    /\ treg = [t \in Incrementers |-> 0]
    /\ cmain = "start"
    /\ launched = 0
    /\ cjoined = 0
    /\ actual = -1
    /\ lastInc = 0
    /\ interleaved = FALSE

\* one of the three programs starts: main resets the counter
CounterStart ==
    /\ cmain = "start"
    /\ cprog' \in Programs
    /\ shared_counter' = 0
    /\ cmain' = "launch"
    /\ UNCHANGED <<queuevars, poolvars, chanvars, sumvars, exvars, counter_mutex, tpc, ti, treg,
                   launched, cjoined, actual, lastInc, interleaved>>

\* threads.emplace_back(f): the next thread starts its loop
CounterLaunch ==
    /\ cmain = "launch"
    /\ launched' = launched + 1
    /\ tpc' = [tpc EXCEPT ![launched + 1] = LoopPc(0)]
    /\ cmain' = IF launched + 1 = NumThreads THEN "join" ELSE "launch"
    /\ UNCHANGED <<queuevars, poolvars, chanvars, sumvars, exvars, cprog, counter_mutex,
                   shared_counter, ti, treg, cjoined, actual, lastInc, interleaved>>

\* variant of MutexAcquirable: lock() succeeds whoever holds the mutex
MutexAcquirableAlways == TRUE

\* std::mutex::lock returns only when no thread owns the mutex
MutexAcquirable == counter_mutex = Unowned

\* the observation made at each increment by thread t
Observe(t) ==
    /\ lastInc' = t
    /\ interleaved' = (interleaved \/ (lastInc \notin {0, t} /\ tpc[lastInc] # "done"))

\* lock of the mutex by thread t
CtrAcquire(t) ==
    /\ tpc[t] = "body"
    /\ MutexAcquirable
    /\ counter_mutex' = t
    /\ tpc' = [tpc EXCEPT ![t] = "load"]
    /\ UNCHANGED <<queuevars, poolvars, chanvars, sumvars, exvars, cprog, shared_counter, ti, treg,
                   cmain, launched, cjoined, actual, lastInc, interleaved>>

\* counter++ on a plain int, first half: read the counter
CtrLoad(t) ==
    /\ tpc[t] = "load"
    /\ treg' = [treg EXCEPT ![t] = shared_counter]
    /\ tpc' = [tpc EXCEPT ![t] = "store"]
    /\ UNCHANGED <<queuevars, poolvars, chanvars, sumvars, exvars, cprog, counter_mutex,
                   shared_counter, ti, cmain, launched, cjoined, actual, lastInc, interleaved>>

\* counter++ on a plain int, second half: write back the value read plus one
CtrStore(t) ==
    /\ tpc[t] = "store"
    /\ shared_counter' = treg[t] + 1
    /\ tpc' = [tpc EXCEPT ![t] = "unlock"]
    /\ Observe(t)
    /\ UNCHANGED <<queuevars, poolvars, chanvars, sumvars, exvars, cprog, counter_mutex, ti, treg,
                   cmain, launched, cjoined, actual>>

\* unlock of the mutex by thread t, then ++i and the loop test
CtrRelease(t) ==
    /\ tpc[t] = "unlock"
    /\ counter_mutex' = Unowned
    /\ ti' = [ti EXCEPT ![t] = @ + 1]
    /\ tpc' = [tpc EXCEPT ![t] = LoopPc(ti[t] + 1)]
    /\ UNCHANGED <<queuevars, poolvars, chanvars, sumvars, exvars, cprog, shared_counter, treg,
                   cmain, launched, cjoined, actual, lastInc, interleaved>>

\* 03_mutex.cpp: counter_mutex.lock()
ManualLock(t) == cprog = "manual_lock" /\ CtrAcquire(t)

\* 03_mutex.cpp: shared_counter_mutex++
ManualLoad(t) == cprog = "manual_lock" /\ CtrLoad(t)

ManualStore(t) == cprog = "manual_lock" /\ CtrStore(t)

\* 03_mutex.cpp: counter_mutex.unlock()
ManualUnlock(t) == cprog = "manual_lock" /\ CtrRelease(t)

\* 04_lock_guard.cpp: std::lock_guard<std::mutex> guard(counter_mutex_lg)
GuardLock(t) == cprog = "lock_guard" /\ CtrAcquire(t)

\* 04_lock_guard.cpp: shared_counter_lg++
GuardLoad(t) == cprog = "lock_guard" /\ CtrLoad(t)

GuardStore(t) == cprog = "lock_guard" /\ CtrStore(t)

\* 04_lock_guard.cpp: guard goes out of scope at the end of the iteration
GuardUnlock(t) == cprog = "lock_guard" /\ CtrRelease(t)

\* 05_atomic.cpp: atomic_counter++, one indivisible read-modify-write,
\* then ++i and the loop test
AtomicIncrement(t) ==
    /\ cprog = "atomic"
    /\ tpc[t] = "body"
    /\ shared_counter' = shared_counter + 1
    /\ ti' = [ti EXCEPT ![t] = @ + 1]
    /\ tpc' = [tpc EXCEPT ![t] = LoopPc(ti[t] + 1)]
    /\ Observe(t)
    /\ UNCHANGED <<queuevars, poolvars, chanvars, sumvars, exvars, cprog, counter_mutex, treg,
                   cmain, launched, cjoined, actual>>

\* t.join() on the next thread of the vector: returns once it has finished
CounterJoin ==
    /\ cmain = "join"
    /\ cjoined < NumThreads
    /\ tpc[cjoined + 1] = "done"
    /\ cjoined' = cjoined + 1
    /\ UNCHANGED <<queuevars, poolvars, chanvars, sumvars, exvars, cprog, counter_mutex,
                   shared_counter, tpc, ti, treg, cmain, launched, actual, lastInc, interleaved>>

\* std::cout << "Actual counter value ..." << counter
CounterPrint ==
    /\ cmain = "join"
    /\ cjoined = NumThreads
    /\ actual' = shared_counter
    /\ cmain' = "end"
    /\ UNCHANGED <<queuevars, poolvars, chanvars, sumvars, exvars, cprog, counter_mutex,
                   shared_counter, tpc, ti, treg, launched, cjoined, lastInc, interleaved>>

CounterNext ==
    \/ CounterStart
    \/ CounterLaunch
    \/ \E t \in Incrementers : ManualLock(t)
    \/ \E t \in Incrementers : ManualLoad(t)
    \/ \E t \in Incrementers : ManualStore(t)
    \/ \E t \in Incrementers : ManualUnlock(t)
    \/ \E t \in Incrementers : GuardLock(t)
    \/ \E t \in Incrementers : GuardLoad(t)
    \/ \E t \in Incrementers : GuardStore(t)
    \/ \E t \in Incrementers : GuardUnlock(t)
    \/ \E t \in Incrementers : AtomicIncrement(t)
    \/ CounterJoin
    \/ CounterPrint

Init == QueueInit /\ PoolInit /\ ChanInit /\ SumInit /\ ExInit /\ CounterInit

CounterSpec == Init /\ [][CounterNext]_vars

\* the queue and its producers, consumers and closing thread
Spec == Init /\ [][Next]_vars

\* the pool, its workers, its submitting threads and its destructor
PoolSpec == Init /\ [][PoolNext]_vars

\* one promise / future pair per iteration of main's loop, its worker thread and main
ChannelSpec == Init /\ [][ChanNext]_vars

\* --------------------------------------------------------------- fairness
\* a thread inside push, pop or set_finished is scheduled again: every step of a
\* call in progress is weakly fair; starting a call and spurious wake-ups are not
QueueFairness ==
    /\ \A p \in Producers :
         WF_vars(PushRelock(p) \/ PushWait(p) \/ PushDrop(p) \/ PushEnqueue(p) \/ PushNotify(p))
    /\ \A c \in Consumers :
         WF_vars(PopRelock(c) \/ PopWait(c) \/ PopNone(c) \/ PopTake(c) \/ PopNotify(c))
    /\ WF_vars(SetFinished)

\* the queue under fair scheduling
FairSpec == Spec /\ QueueFairness

\* fair scheduling with a mutex that starves no thread: a woken thread that
\* finds mtx free again and again eventually acquires it (strong fairness of the
\* re-lock inside wait), and every other step of a call in progress is weakly fair
QueueLockFairness ==
    /\ \A p \in Producers :
         /\ SF_vars(PushRelock(p))
         /\ WF_vars(PushWait(p) \/ PushDrop(p) \/ PushEnqueue(p) \/ PushNotify(p))
    /\ \A c \in Consumers :
         /\ SF_vars(PopRelock(c))
         /\ WF_vars(PopWait(c) \/ PopNone(c) \/ PopTake(c) \/ PopNotify(c))
    /\ WF_vars(SetFinished)

\* the queue under fair scheduling and a starvation-free mutex
LockFairSpec == Spec /\ QueueLockFairness

\* the example program: its threads keep running and the mutex starves none of
\* them, so every acquisition of mtx is strongly fair and every other step
\* weakly fair; spurious wake-ups are not
ExampleFairness ==
    /\ \A p \in Producers :
         /\ SF_vars(PushLock(p)) /\ SF_vars(PushRelock(p))
         /\ WF_vars(PushWait(p) \/ PushEnqueue(p) \/ PushNotify(p))
    /\ \A c \in Consumers :
         /\ SF_vars(ExPopLock(c)) /\ SF_vars(PopRelock(c))
         /\ WF_vars(PopWait(c) \/ ExPopNone(c) \/ PopTake(c) \/ PopNotify(c))
    /\ SF_vars(ExCloseLock)
    /\ WF_vars(SetFinished) /\ WF_vars(ExJoinConsumers)

\* main of 06_task_queue.cpp with its producer and consumer threads
ExampleSpec == Init /\ [][ExampleNext]_vars /\ ExampleFairness

\* a worker, a submitter inside a call, the destructor and the thread waiting in
\* get are scheduled again: their steps are weakly fair; starting a submission,
\* starting the destructor and spurious wake-ups are not
PoolFairness ==
    /\ \A w \in Workers : WF_vars(WorkerStep(w))
    /\ \A s \in Submitters :
         WF_vars(EnqueueReject(s) \/ EnqueueAccept(s) \/ EnqueueNotify(s)
                   \/ TaskReject(s) \/ TaskAccept(s) \/ TaskNotify(s))
    /\ WF_vars(DtorStop \/ DtorNotify \/ DtorJoin)
    /\ \A t \in TaskIds : WF_vars(FutureGet(t))

\* the pool under fair scheduling
FairPoolSpec == PoolSpec /\ PoolFairness

\* the threads of the two promise / future programs keep running: every step
\* the programs themselves take is weakly fair; the further set and get calls
\* are not
ChannelFairness ==
    /\ WF_vars(MainLaunch) /\ WF_vars(MainGet) /\ WF_vars(MainJoin)
    /\ WF_vars(RiskyTry) /\ WF_vars(RiskySetValue) /\ WF_vars(RiskySetException)
    /\ WF_vars(RiskyReturn)
    /\ WF_vars(SumLaunch) /\ WF_vars(SumAdd) /\ WF_vars(SumSetValue)
    /\ WF_vars(SumGet) /\ WF_vars(SumJoin)

\* the promise / future programs under fair scheduling
FairChannelSpec == ChannelSpec /\ ChannelFairness

\* ================================================================== claims
Range(s) == {s[i] : i \in 1..Len(s)}

IsPrefix(s, t) == Len(s) <= Len(t) /\ \A i \in 1..Len(s) : s[i] = t[i]

\* the item of the push call producer p completed last
LastItem(p) == Task(p, pn[p] - 1)

\* C1: in every reachable state the number of buffered items is between 0 and
\* max_size, whatever producers, consumers and the closing thread do.
C1_CapacityInvariant == 0 <= Len(q) /\ Len(q) <= max_size

\* C1 witness: the queue is full and a producer is blocked in push.
C1_FullQueueReached ==
    /\ Len(q) = max_size
    /\ \E p \in Producers : ppc[p] = "blocked"
    /\ \E c \in Consumers : cpc[c] = "notify"

\* C2: the items are dequeued in the order in which their pushes appended them:
\* the dequeue order is a prefix of the enqueue order.
C2_FifoOrder == IsPrefix(dequeued, enqueued)

\* C2 witness: two racing producers' items were dequeued, the second producer's first.
C2_TwoProducersDequeued ==
    /\ Len(dequeued) >= 3
    /\ dequeued[1] = Task("p2", 0)
    /\ dequeued[2] = Task("p1", 0)
    /\ dequeued[3] = Task("p2", 1)

\* C3: after set_finished the pops remove exactly the items buffered at the
\* close, in order (removed-since-close followed by still-buffered is the buffer
\* at close); a pop returns nullopt only once they are all removed, and after a
\* nullopt no pop removes an item.
C3_DrainToStop ==
    /\ [](finished => sinceClose \o q = atClose)
    /\ [](noneSeen => finished /\ q = <<>> /\ sinceClose = atClose)
    /\ [][noneSeen => dequeued' = dequeued]_vars

\* C3 witness: two items were buffered at the close, both were popped, then nullopt.
C3_DrainedThenNone ==
    /\ noneSeen
    /\ Len(atClose) = 2
    /\ sinceClose = atClose
    /\ \A c \in Consumers : cpc[c] = "idle"

\* C4: once finished is set no push appends: the buffer never grows and the
\* enqueue order never extends in a step taken with finished set.
C4_NoPushAfterClose ==
    [][finished => Len(q') <= Len(q) /\ enqueued' = enqueued]_vars

\* C4 witness: a push that was blocked on the full queue returned without
\* enqueuing after the close, the queue still full.
C4_DroppedOnFullClosedQueue ==
    /\ finished
    /\ Len(q) = max_size
    /\ \E p \in Producers : pushOutcome[p] = "dropped" /\ ppc[p] = "idle"

\* C5 (as claimed): a push that does not enqueue because the queue is closed
\* reports Closed, which differs from what a push that enqueued reports.
C5_ClosedReported ==
    \A p, r \in Producers :
        /\ pushOutcome[p] = "dropped" => pushResult[p] = "Closed"
        /\ pushOutcome[p] = "dropped" /\ pushOutcome[r] = "enqueued"
              => pushResult[p] # pushResult[r]

\* C5 (amended): a push on a closed queue returns to its caller exactly as a
\* push that enqueued does (push is void): the item is not enqueued and the
\* caller is told nothing.
C5_SilentDrop ==
    \A p \in Producers :
        /\ pushOutcome[p] = "dropped"
              => pushResult[p] = "void" /\ LastItem(p) \notin Range(enqueued)
        /\ pushOutcome[p] = "enqueued"
              => pushResult[p] = "void" /\ LastItem(p) \in Range(enqueued)

\* C5 witness: one producer's push was dropped and another's was enqueued.
C5_DroppedAndEnqueued ==
    \E p, r \in Producers :
        pushOutcome[p] = "dropped" /\ pushOutcome[r] = "enqueued"

\* C6: under fair scheduling, once finished is set every producer blocked in
\* push and every consumer blocked in pop returns from its call.
C6_CloseWakesAll ==
    /\ \A p \in Producers : (finished /\ ppc[p] = "blocked") ~> (ppc[p] = "idle")
    /\ \A c \in Consumers : (finished /\ cpc[c] = "blocked") ~> (cpc[c] = "idle")

\* C6 witness: the close took effect while a producer and a consumer were
\* still blocked in their waits.
C6_ClosedWhileBlocked ==
    /\ finished
    /\ \E p \in Producers : ppc[p] = "blocked"
    /\ \E c \in Consumers : cpc[c] = "blocked"

\* C7: while the queue holds max_size items and is not closed, no push appends
\* and no push that has not appended yet returns; an append happens only from a
\* state with fewer than max_size items.
C7_PushBlocksWhenFull ==
    [][ /\ (Len(q) = max_size /\ ~finished) =>
              /\ enqueued' = enqueued
              /\ \A p \in Producers :
                    ppc[p] \in {"wait", "blocked"} => ppc'[p] \in {"wait", "blocked"}
        /\ Len(q') > Len(q) => Len(q) < max_size ]_vars

\* C7 witness: a producer sleeps in cv_producer on a full, open queue.
C7_ProducerWaitsOnFull ==
    /\ Len(q) = max_size
    /\ ~finished
    /\ \E p \in Producers : ppc[p] = "blocked" /\ p \in cv_producer

\* C8 (as claimed): a task body that throws never ends the worker that ran it:
\* no worker is killed by a task's exception and the process keeps running.
C8_FailingTaskKeepsWorker ==
    /\ ~terminated
    /\ \A w \in Workers : wpc[w] # "killed"

\* C9: a future holds the outcome of its own task only (the value of a task
\* that returned, the exception of a task that threw), get hands out what the
\* future holds, a packaged task that has run has made its future ready without
\* ending its worker, and when the pool has been joined every accepted packaged
\* task has run.
C9_TaskIsolation ==
    /\ \A t \in TaskIds :
          /\ fstate[t] = "value" =>
                kind[t] = "packaged" /\ body[t] = "ok" /\ fval[t] = t * t
          /\ fstate[t] = "exception" =>
                kind[t] = "packaged" /\ body[t] = "throw" /\ fval[t] = t
          /\ gstate[t] # "none" => gstate[t] = fstate[t] /\ gval[t] = fval[t]
          /\ (kind[t] = "packaged" /\ tstate[t] = "done") =>
                fstate[t] = (IF body[t] = "ok" THEN "value" ELSE "exception")
          /\ (dpc = "done" /\ kind[t] = "packaged" /\ tstate[t] \in {"queued", "running", "done"})
                => tstate[t] = "done"
    /\ \A w \in Workers : wpc[w] = "killed" => kind[wtask[w]] = "void"

\* C9 witness: a packaged task failed, a later one succeeded, both handles
\* were read, and the pool was joined.
C9_FailureThenSuccess ==
    \E t1, t2 \in TaskIds :
        /\ t1 < t2
        /\ gstate[t1] = "exception"
        /\ gstate[t2] = "value"
        /\ gval[t2] = 4
        /\ dpc = "done"

\* C10 (as claimed): the number of pending tasks of the pool never exceeds the
\* capacity bound N.
C10_PendingBounded == Len(tasks) <= PendingBound

\* the step of a submission that holds queue_mutex
SubmitUnderLock(s) ==
    EnqueueReject(s) \/ EnqueueAccept(s) \/ TaskReject(s) \/ TaskAccept(s)

\* C10 (amended): a submission never waits for queue space: once it holds
\* queue_mutex its next step (append, or the refusal of a stopped pool) can be
\* taken whatever the number of pending tasks, which is limited only by the
\* number of tasks submitted.
C10_SubmitNeverWaits ==
    /\ Len(tasks) <= ntasks
    /\ ~terminated =>
          \A s \in Submitters :
              epc[s] \in {"enqueue", "task"} => ENABLED SubmitUnderLock(s)

\* C10 witness: every submitted task is pending at once, more than the bound,
\* and the submitter has returned.
C10_AllPending ==
    /\ Len(tasks) = MaxTasks
    /\ Len(tasks) > PendingBound
    /\ \A s \in Submitters : epc[s] = "idle"

\* C11 (as claimed): an enqueue refused by a stopped pool gives its caller the
\* failure PoolStopped, which differs from what an accepted enqueue gives.
C11_StoppedReported ==
    \A t \in TaskIds :
        (kind[t] = "void" /\ tstate[t] = "rejected") => submitOutcome[t] = "PoolStopped"

\* C11 (amended): an enqueue refused by a stopped pool leaves the task out of
\* the queue and gives its caller nothing: every enqueue that has returned,
\* refused or accepted, returned void, and a refused task is never run.
C11_SilentRefusal ==
    \A t \in TaskIds :
        /\ (kind[t] = "void" /\ submitOutcome[t] # "none") => submitOutcome[t] = "void"
        /\ (kind[t] = "void" /\ tstate[t] = "rejected") =>
              /\ submitOutcome[t] = "void"
              /\ runs[t] = 0
              /\ t \notin Range(tasks)

\* C11 witness: one enqueue was accepted, a later one was refused by the
\* stopped pool, and both gave their callers the same thing.
C11_RefusedAndAccepted ==
    \E t1, t2 \in TaskIds :
        /\ kind[t1] = "void" /\ kind[t2] = "void"
        /\ tstate[t1] = "done"
        /\ tstate[t2] = "rejected"
        /\ submitOutcome[t1] = submitOutcome[t2]

\* C12: an enqueue_task that finds stop set under the lock ends by throwing
\* std::runtime_error: its caller gets no future, the task is not appended and
\* the queue is as it was before the call's step.
C12_TaskRefusedOnStop ==
    [][\A s \in Submitters :
          (epc[s] = "task" /\ stop /\ epc'[s] # epc[s]) =>
              /\ epc'[s] = "idle"
              /\ submitResult'[s] = "runtime_error"
              /\ tasks' = tasks
              /\ tstate'[etask[s]] = "rejected"
              /\ fstate'[etask[s]] = "none"]_vars

\* C12 witness: enqueue_task threw on a stopped pool while another task was
\* still pending in the queue.
C12_ThrownWithPending ==
    \E t \in TaskIds :
        /\ kind[t] = "packaged"
        /\ submitOutcome[t] = "runtime_error"
        /\ fstate[t] = "none"
        /\ Len(tasks) > 0

\* C13: once stop is set it stays set and no step adds a task to the queue:
\* every step taken with stop set leaves the queue as it was or removes its
\* front task.
C13_NoAcceptAfterStop ==
    [][stop => /\ stop'
               /\ \/ tasks' = tasks
                  \/ Len(tasks) > 0 /\ tasks' = TasksAfterTake(tasks)
               /\ Len(tasks') <= Len(tasks)]_vars

\* C13 witness: after stop was set an enqueue and an enqueue_task were both
\* refused, and the task pending at that time has been run.
C13_BothRefusedAfterStop ==
    /\ stop
    /\ \E t1, t2 \in TaskIds :
          /\ kind[t1] = "void" /\ tstate[t1] = "rejected"
          /\ kind[t2] = "packaged" /\ tstate[t2] = "rejected"
    /\ \E t \in atShutdown : tstate[t] = "done"

\* C14: when the destructor has returned, every task that was in the queue when
\* the destructor was called has been run to its end and, if it is a packaged
\* task, has made its future ready; and a worker leaves its loop only in a
\* state where stop is set and the queue is empty.
C14_GracefulDrain ==
    /\ [](dpc = "done" =>
            \A t \in atShutdown :
                /\ tstate[t] = "done"
                /\ runs[t] = 1
                /\ kind[t] = "packaged" => fstate[t] \in {"value", "exception"})
    /\ [][\A w \in Workers :
            (wpc[w] # "exited" /\ wpc'[w] = "exited") => (stop /\ tasks = <<>>)]_vars

\* C14 witness: the destructor was called with two tasks pending, one of them
\* packaged, and has returned.
C14_DrainedTwoPending ==
    /\ dpc = "done"
    /\ Cardinality(atShutdown) >= 2
    /\ \E t \in atShutdown : kind[t] = "packaged" /\ fstate[t] = "value"
    /\ \E t \in atShutdown : kind[t] = "void"

\* C15: in every state where the destructor has returned, each worker thread
\* has left its thread function: none holds a task, waits on the condition
\* variable or holds the mutex.
C15_AllWorkersJoined ==
    dpc = "done" =>
        /\ djoin = Len(WorkerOrder)
        /\ \A w \in Workers :
              /\ wpc[w] = "exited"
              /\ wtask[w] = 0
              /\ w \notin condition
              /\ queue_mutex # w

\* C15 witness: the destructor has returned after a packaged task failed, and
\* both workers have left.
C15_JoinedAfterFailure ==
    /\ dpc = "done"
    /\ \A w \in Workers : wpc[w] = "exited"
    /\ \E t \in TaskIds : tstate[t] = "done" /\ fstate[t] = "exception"

\* C16 (as claimed): under fair scheduling a destructor that has been called
\* eventually returns, whatever the tasks run during the drain did.
C16_ShutdownCompletes == (dpc # "idle") ~> (dpc = "done")

\* C17: a task is taken from the queue at most once; it is never in the queue
\* twice, never held by two workers, never both in the queue and held or
\* finished, and a task that is held or finished was taken exactly once.
C17_ExactlyOnce ==
    /\ \A t \in TaskIds :
          /\ runs[t] <= 1
          /\ Cardinality({i \in 1..Len(tasks) : tasks[i] = t})
                + Cardinality({w \in Workers : wtask[w] = t}) <= 1
          /\ tstate[t] = "queued" <=> t \in Range(tasks)
          /\ tstate[t] = "running" <=> \E w \in Workers : wtask[w] = t /\ wpc[w] = "run"
          /\ tstate[t] \in {"running", "done"} => runs[t] = 1
          /\ tstate[t] \in {"none", "created", "queued", "rejected"} => runs[t] = 0
    /\ [][\A t \in TaskIds : tstate[t] = "done" => tstate'[t] = "done"]_vars

\* C17 witness: two workers hold two different tasks at the same time while a
\* third task is still in the queue.
C17_TwoWorkersTwoTasks ==
    /\ wpc["w1"] = "run" /\ wpc["w2"] = "run"
    /\ wtask["w1"] # wtask["w2"]
    /\ Len(tasks) = 1

\* the tasks of the claimed scenario: enqueue_task of a body that returns
SquareTask(t) == kind[t] = "packaged" /\ body[t] = "ok"

Ready(c) == shared[c] \notin {"none", "pending"}

\* C19: on every channel at most one set call succeeds, and it is the first:
\* each later set_value or set_exception fails with promise_already_satisfied,
\* and once the shared state holds an outcome no step changes it, so it stays
\* the outcome of the worker's own set.
C19_OneShotWrite ==
    /\ [](\A c \in Channels :
            /\ Ready(c) <=> Len(setCalls[c]) >= 1
            /\ \A i \in 1..Len(setCalls[c]) :
                  setCalls[c][i] = (IF i = 1 THEN "ok" ELSE "promise_already_satisfied")
            /\ Ready(c) =>
                  /\ shared[c] = RiskyOutcome(Inputs[c])
                  /\ sharedval[c] = (IF shared[c] = "value" THEN Processed(Inputs[c]) ELSE <<>>))
    /\ [][\A c \in Channels :
            Ready(c) => (shared'[c] = shared[c] /\ sharedval'[c] = sharedval[c])]_vars

\* C19 witness: after the worker's set_value a further set was tried on the
\* same promise and failed, and after another worker's set_exception too.
C19_SecondSetRefused ==
    \E c1, c2 \in Channels :
        /\ shared[c1] = "value"
        /\ shared[c2] = "invalid_argument"
        /\ setCalls[c1] = <<"ok", "promise_already_satisfied">>
        /\ setCalls[c2] = <<"ok", "promise_already_satisfied">>

\* C20: on every future the first get gives the stored outcome to its caller
\* and leaves the future without shared state; every later get fails with
\* no_state, so exactly one get call observes the outcome.
C20_OneShotRead ==
    \A c \in Channels :
        /\ \A i \in 1..Len(getCalls[c]) :
              getCalls[c][i] = (IF i = 1 THEN shared[c] ELSE "no_state")
        /\ Len(getCalls[c]) >= 1 =>
              /\ Ready(c)
              /\ ~valid[c]
              /\ received[c] = [out |-> shared[c], val |-> sharedval[c]]
              /\ Cardinality({i \in 1..Len(getCalls[c]) : getCalls[c][i] # "no_state"}) = 1
        /\ Len(getCalls[c]) = 0 => received[c].out = "none"

\* C20 witness: a second get was tried on a future whose first get returned
\* the value, and on one whose first get rethrew the exception.
C20_SecondGetRefused ==
    \E c1, c2 \in Channels :
        /\ getCalls[c1] = <<"value", "no_state">>
        /\ received[c1].val = Processed(10)
        /\ getCalls[c2] = <<"runtime_error", "no_state">>

\* C21: get returns only from a ready shared state and hands its caller what
\* the writer stored: the value after set_value, the exception after
\* set_exception; every path of risky_worker and calculate_sum has made its one
\* set call before the function returns, and under fair scheduling every
\* pending channel is eventually read with the outcome of its worker.
C21_GetDeliversStored ==
    /\ [][/\ \A c \in Channels : Len(getCalls'[c]) > Len(getCalls[c]) => Ready(c)
          /\ sumresult' # sumresult => sumshared = "value"]_vars
    /\ [](\A c \in Channels :
            received[c].out # "none" =>
                /\ received[c].out = RiskyOutcome(Inputs[c])
                /\ received[c].val =
                      (IF Inputs[c] > 0 THEN Processed(Inputs[c]) ELSE <<>>))
    /\ [](sumresult.out # "none" => sumresult = [out |-> "value", val |-> 55])
    /\ [](riskypc \in {"holding", "returned"} => setCalls[iter][1] = "ok")
    /\ [](sumpc = "returned" => sumshared = "value")
    /\ \A c \in Channels :
          (shared[c] = "pending") ~> (received[c].out = RiskyOutcome(Inputs[c]))
    /\ (sumshared = "pending") ~> (sumresult.val = 55)

\* C21 witness: main received the value of input 10, the two exceptions of
\* inputs -5 and 0, and the sum 55.
C21_AllOutcomesReceived ==
    /\ received[1] = [out |-> "value", val |-> Processed(10)]
    /\ received[2].out = "invalid_argument"
    /\ received[3].out = "runtime_error"
    /\ sumresult.val = 55
    /\ mainpc = "end" /\ summain = "end"

\* C22: a thread inside enqueue_task is never in the wait set of the condition
\* variable, and once it holds queue_mutex each of its remaining steps (the
\* append or the refusal, then the notify and the return of the future) can be
\* taken whatever has become of the task and however many tasks are pending;
\* the call returns the future with the task enqueued, the shared state still
\* pending as long as no worker has run the task.
C22_HandleReturnedAtOnce ==
    /\ [](\A s \in Submitters :
            /\ s \notin condition
            /\ (~terminated /\ epc[s] = "task") => ENABLED (TaskReject(s) \/ TaskAccept(s))
            /\ (~terminated /\ epc[s] = "task_notify") => ENABLED TaskNotify(s))
    /\ [](\A t \in TaskIds :
            (submitOutcome[t] = "future" /\ tstate[t] \in {"queued", "running"})
                => fstate[t] = "pending")
    /\ [][\A s \in Submitters :
            (epc[s] = "task_notify" /\ epc'[s] = "idle") =>
                /\ submitResult'[s] = "future"
                /\ tstate'[etask[s]] \in {"queued", "running", "done"}]_vars

\* C22 witness: enqueue_task has returned two futures while both tasks are
\* still in the queue, their shared states pending.
C22_ReturnedWhilePending ==
    \E t1, t2 \in TaskIds :
        /\ t1 # t2
        /\ submitOutcome[t1] = "future" /\ submitOutcome[t2] = "future"
        /\ tstate[t1] = "queued" /\ tstate[t2] = "queued"
        /\ fstate[t1] = "pending" /\ fstate[t2] = "pending"
        /\ \A s \in Submitters : epc[s] = "idle"

\* the lifecycle state of the pool read off its fields: running until stop is
\* set, draining until the destructor has joined the workers, stopped after
PoolPhase ==
    IF ~stop THEN 0 ELSE IF dpc # "done" THEN 1 ELSE 2

\* C23: the pool starts running, its lifecycle state never moves backwards,
\* stop is set from the destructor's assignment on and no step of any
\* operation clears it.
C23_LifecycleMonotonic ==
    /\ [][stop => stop']_vars
    /\ [][PoolPhase' >= PoolPhase]_vars
    /\ [](dpc \in {"notify", "join", "done"} => stop)
    /\ [](dpc = "idle" => ~stop)

\* C23 witness: the pool is stopped after a submission was refused and a task
\* was run while it was draining.
C23_StoppedAfterDraining ==
    /\ PoolPhase = 2
    /\ \E t \in TaskIds : tstate[t] = "rejected"
    /\ \E t \in atShutdown : runs[t] = 1

C25_NoLostWakeup ==
    /\ \A c \in Consumers :
          (cpc[c] = "blocked" /\ Len(q) > 0) ~> (cpc[c] # "blocked" \/ Len(q) = 0)
    /\ \A p \in Producers :
          (ppc[p] = "blocked" /\ Len(q) < max_size)
              ~> (ppc[p] # "blocked" \/ Len(q) = max_size)

\* C25 witness: on an open queue a consumer is still blocked although an item
\* is buffered, and a producer is still blocked although there is room.
C25_BlockedWithWorkToDo ==
    /\ ~finished
    /\ Len(q) > 0 /\ Len(q) < max_size
    /\ \E c \in Consumers : cpc[c] = "blocked"
    /\ \E p \in Producers : ppc[p] = "blocked"

\* C26: a pop returns std::nullopt only from a state where finished is set and
\* the queue is empty; on an open, empty queue a consumer inside pop stays in
\* its wait whatever wakes it, and never returns.
C26_NoneOnlyWhenClosedAndEmpty ==
    [][\A c \in Consumers :
          /\ (cpc[c] = "wait" /\ cpc'[c] = "idle") => (finished /\ q = <<>>)
          /\ (cpc[c] \in {"wait", "blocked"} /\ ~finished /\ q = <<>>) =>
                cpc'[c] \in {"wait", "blocked"}
          /\ (cpc[c] = "wait" /\ Len(q) > 0 /\ cpc'[c] # cpc[c]) =>
                (cpc'[c] = "notify" /\ citem'[c] = PopFront(q))]_vars

\* C26 witness: a consumer woken on an open, empty queue holds the mutex again
\* and is about to re-test its predicate, while the other consumer sleeps.
C26_WokenOnOpenEmptyQueue ==
    /\ ~finished
    /\ q = <<>>
    /\ \E c1, c2 \in Consumers :
          /\ cpc[c1] = "wait" /\ mtx = c1 /\ cn[c1] > 0
          /\ cpc[c2] = "blocked" /\ c2 \in cv_consumer

\* C27: a worker that is executing a task does not hold queue_mutex: a worker
\* holds it only while it tests its predicate and takes a task, and the step
\* that ends a task is taken without it.
C27_NoTaskUnderLock ==
    /\ [](\A w \in Workers :
            /\ wpc[w] = "run" => queue_mutex # w
            /\ queue_mutex = w => (wpc[w] = "wait" /\ wtask[w] = 0))
    /\ [][\A t \in TaskIds :
            (tstate[t] = "running" /\ tstate'[t] = "done") =>
                \A w \in Workers : wtask[w] = t => (queue_mutex # w /\ queue_mutex' # w)]_vars

\* C27 witness: while one worker executes a task, the submitter holds
\* queue_mutex inside enqueue_task and the other worker executes a task too.
C27_QueueAccessWhileRunning ==
    /\ \A w \in Workers : wpc[w] = "run"
    /\ queue_mutex \in Submitters
    /\ \E s \in Submitters : epc[s] = "task"

\* C28: under fair scheduling the example reaches the end of main, and there
\* every pushed item has been enqueued and returned by exactly one pop, the
\* queue is empty and both consumers have received std::nullopt and left their
\* loops; set_finished is called only after every producer has returned.
C28_ExampleTerminates ==
    /\ <>(exmain = "end")
    /\ [](exmain = "end" =>
            /\ Range(enqueued) = AllTasks
            /\ Range(dequeued) = AllTasks
            /\ Len(dequeued) = Cardinality(AllTasks)
            /\ q = <<>>
            /\ \A c \in Consumers : cexit[c] /\ cpc[c] = "idle"
            /\ \A p \in Producers : ProducerFinished(p))
    /\ [](finished => \A p \in Producers : ProducerFinished(p))
    /\ [](\A c \in Consumers : cexit[c] => (finished /\ q = <<>>))

\* C28 witness: main is at its end after a producer had to wait for room and
\* both consumers left on nullopt, all items processed.
C28_MainAtEnd ==
    /\ exmain = "end"
    /\ Len(dequeued) = Cardinality(AllTasks)
    /\ \A c \in Consumers : cexit[c]
    /\ \E c \in Consumers : cn[c] = 1

\* C29: finished is false until the first set_finished has taken effect and
\* true from then on: no step of any operation clears it, and a set_finished
\* that finds it set leaves the flag and the buffer as they were.
C29_CloseMonotonicIdempotent ==
    /\ [][finished => finished']_vars
    /\ [][(finished /\ sn' = sn + 1) => (finished' /\ q' = q)]_vars
    /\ [](finished <=> sn >= 1)

\* C29 witness: set_finished has returned twice, items still buffered.
C29_ClosedTwice ==
    /\ sn = 2
    /\ spc = "idle"
    /\ finished
    /\ Len(q) > 0

\* C30: the items are pairwise different and, in every state, the items that
\* were enqueued are the items already returned by a pop followed by the items
\* still buffered: no item is returned twice and none disappears.
C30_Conservation ==
    /\ enqueued = dequeued \o q
    /\ Cardinality(Range(enqueued)) = Len(enqueued)
    /\ Cardinality(Range(dequeued)) = Len(dequeued)
    /\ Range(dequeued) \cap Range(q) = {}
    /\ \A c \in Consumers : citem[c] # 0 => citem[c] \in Range(dequeued)

\* C30 witness: both consumers hold an item each, taken from a queue that
\* still buffers a third.
C30_TwoTakenOneBuffered ==
    /\ citem["c1"] # 0 /\ citem["c2"] # 0
    /\ citem["c1"] # citem["c2"]
    /\ Len(q) = 1
    /\ Len(enqueued) = 3

\* iterations completed by the threads 1..n
RECURSIVE CompletedUpTo(_)
CompletedUpTo(n) == IF n = 0 THEN 0 ELSE ti[n] + CompletedUpTo(n - 1)

\* C31: in each of the three counter programs, once main has joined all
\* NumThreads threads the counter equals NumThreads * Iterations, whatever
\* the interleaving: the value main prints is the expected one, and until
\* then the counter equals the number of increments completed.
C31_NoLostUpdate ==
    /\ cmain = "end" => actual = Expected
    /\ cjoined = NumThreads => shared_counter = Expected
    /\ shared_counter =
           CompletedUpTo(NumThreads)
           + Cardinality({t \in Incrementers : tpc[t] = "unlock"})

\* C31 witness: main printed the expected value after a run in which the
\* threads' increments under the manually locked mutex were interleaved.
C31_InterleavedRunCounted ==
    /\ cprog = "manual_lock"
    /\ cmain = "end"
    /\ interleaved
    /\ actual = Expected

====
